---- MODULE Spec2Model ----
(***************************************************************************)
(* binance_mcp.py: an authenticated gateway that turns simplified trading  *)
(* requests into signed calls against the venue's REST API.                *)
(*                                                                         *)
(* The event loop is single-threaded and cooperative: the code between two *)
(* real network awaits runs atomically, so every action below is one such  *)
(* segment of a handler or of the clock synchroniser.                      *)
(*                                                                         *)
(* Python floats are modelled as integers (exact arithmetic; rounding is   *)
(* not modelled).  Optional[T] is modelled as a sequence: <<>> is None and *)
(* <<v>> is the value v.                                                   *)
(***************************************************************************)
EXTENDS Integers, Sequences, FiniteSets, TLC

VARIABLES
    AGENT_KEY,                \* shared gateway secret ("" = not configured)
    BINANCE_API_KEY,          \* venue API key ("" = unset)
    BINANCE_API_SECRET,       \* venue API secret ("" = unset)
    MAX_NOTIONAL_PER_ORDER,   \* guardrail, 0 disables
    MAX_QTY_PER_ORDER,        \* guardrail, 0 disables
    MAX_PRICE_DEVIATION_PCT,  \* guardrail, 0 disables
    time_offset_ms,           \* venue time - local time (ms)
    now,                      \* int(time.time() * 1000), the local clock
    sync,                     \* the startup hook / refresher task
    printed,                  \* what the last [time-sync] line printed said
    req,                      \* the inbound request being handled
    sent,                     \* outbound HTTP calls issued for req, in order
    resp                      \* the response given to req

config == <<AGENT_KEY, BINANCE_API_KEY, BINANCE_API_SECRET,
            MAX_NOTIONAL_PER_ORDER, MAX_QTY_PER_ORDER, MAX_PRICE_DEVIATION_PCT>>
vars == <<AGENT_KEY, BINANCE_API_KEY, BINANCE_API_SECRET,
          MAX_NOTIONAL_PER_ORDER, MAX_QTY_PER_ORDER, MAX_PRICE_DEVIATION_PCT,
          time_offset_ms, now, sync, printed, req, sent, resp>>
clock == <<time_offset_ms, now, sync, printed>>
request == <<req, sent, resp>>

----------------------------------------------------------------------------
(* Bounds of the model *)

MaxAmount == 2        \* prices, quantities and last prices range over 0..MaxAmount
NotionalCap == 2      \* the enabled value of MAX_NOTIONAL_PER_ORDER
QtyCap == 1           \* the enabled value of MAX_QTY_PER_ORDER
DevCap == 50          \* the enabled value of MAX_PRICE_DEVIATION_PCT
MaxTick == 1          \* the local clock takes MaxTick + 1 readings

RECV_WINDOW_MS == 5000

Amounts == 0..MaxAmount
Symbols == {"btcusdt"}
Sides == {"BUY", "SELL", "HOLD"}
Tifs == {"GTC", "DAY"}
ClientIds == {<<>>, <<"cid">>}
AgentHeaders == {<<>>, <<"">>, <<"agent-secret">>, <<"wrong">>}
Times == {999000 + 500 * k : k \in 0..MaxTick}
ServerTimes == {1000000}

----------------------------------------------------------------------------
(* Conversions *)

Digit(d) ==
    CASE d = 0 -> "0" [] d = 1 -> "1" [] d = 2 -> "2" [] d = 3 -> "3"
      [] d = 4 -> "4" [] d = 5 -> "5" [] d = 6 -> "6" [] d = 7 -> "7"
      [] d = 8 -> "8" [] d = 9 -> "9"

RECURSIVE IntStr(_)
IntStr(n) == IF n < 10 THEN Digit(n) ELSE IntStr(n \div 10) \o Digit(n % 10)

\* f"{x}" of a float holding a whole number: 2.0 -> "2.0"
FloatStr(v) == IntStr(v) \o ".0"

\* the floats of the model and the texts that denote them
FloatText == [v \in 0..(MaxAmount + 1) |-> FloatStr(v)]

\* float(s): the value whose repr is s; <<>> when s is no number (ValueError)
ParseFloat(s) ==
    LET hit == {v \in DOMAIN FloatText : FloatText[v] = s}
    IN  IF hit = {} THEN <<>> ELSE <<CHOOSE v \in hit : TRUE>>

\* str.upper() on the symbols of the model
Upper(s) == CASE s = "btcusdt" -> "BTCUSDT" [] OTHER -> s

Abs(v) == IF v < 0 THEN 0 - v ELSE v

----------------------------------------------------------------------------
(* Errors and responses *)

\* An outcome: kind is none (no error), HTTPException, unhandled, validation,
\* ok or pending; detail is a record.  A message is [msg |-> text].
Msg(text) == [msg |-> text]
NoError == [kind |-> "none", status |-> 0, detail |-> Msg("")]
HTTPException(status, detail) ==
    [kind |-> "HTTPException", status |-> status, detail |-> detail]
\* an exception no handler maps: the framework answers 500
Unhandled(what) == [kind |-> "unhandled", status |-> 500, detail |-> Msg(what)]
\* the body validator rejects the request: the framework answers 422
RequestValidationError == [kind |-> "validation", status |-> 422, detail |-> Msg("")]
Ok(body) == [kind |-> "ok", status |-> 200, detail |-> body]

NoResp == [kind |-> "pending", status |-> 0, detail |-> Msg("")]
\* req.pc: idle, ticker (awaiting the ticker GET), public (awaiting a public
\* GET), venue (awaiting the signed call), done.  req.handler: the route's
\* function was entered.  req.last: what _get_last_price returned.
Idle == [pc |-> "idle", route |-> "", x_agent_key |-> <<>>, body |-> <<>>,
         handler |-> FALSE, last |-> <<>>]

----------------------------------------------------------------------------
(* Auth dependency *)

\* mutant: a request without the header is admitted
require_agent_key_optional(x_agent_key) ==
    ~(AGENT_KEY = "" \/ (x_agent_key # <<>> /\ x_agent_key # <<AGENT_KEY>>))

\* mutant: the test that AGENT_KEY is configured is forgotten
require_agent_key_unconfigured(x_agent_key) == ~(x_agent_key # <<AGENT_KEY>>)

\* TRUE when the request is admitted; FALSE is HTTPException(401)
require_agent_key(x_agent_key) ==
    ~(AGENT_KEY = "" \/ x_agent_key # <<AGENT_KEY>>)

----------------------------------------------------------------------------
(* Request models (pydantic): a field that fails its validators is left out *)
(* of `values`, and the model is rejected when any field failed.            *)

\* Field(..., regex="^(BUY|SELL)$")
side_ok(side) == side \in {"BUY", "SELL"}
\* Field("GTC", regex="^(GTC|IOC|FOK)$")
tif_ok(tif) == tif \in {"GTC", "IOC", "FOK"}
\* @validator pos: if v <= 0: raise ValueError
pos(v) == v > 0

\* the validated fields that precede stop_limit in OCOOrderIn
OcoValues(oco) ==
    [side  |-> IF side_ok(oco.side) THEN <<oco.side>> ELSE <<>>,
     price |-> IF pos(oco.price) THEN <<oco.price>> ELSE <<>>,
     stop  |-> IF pos(oco.stop) THEN <<oco.stop>> ELSE <<>>]

\* Python truthiness of an optional number / string
TruthyNum(o) == o # <<>> /\ o[1] # 0
TruthyStr(o) == o # <<>> /\ o[1] # ""

\* mutant: the SELL branch forgets stop_limit <= stop
oco_relation_sell_loose(v, values) ==
    IF ~(TruthyNum(values.stop) /\ TruthyNum(values.price) /\ TruthyStr(values.side))
    THEN TRUE
    ELSE IF values.side[1] = "SELL"
         THEN values.price[1] > values.stop[1]
         ELSE values.price[1] < values.stop[1] /\ v >= values.stop[1]

\* @validator("stop_limit") oco_relation: TRUE when v is returned,
\* FALSE when ValueError is raised
oco_relation(v, values) ==
    IF ~(TruthyNum(values.stop) /\ TruthyNum(values.price) /\ TruthyStr(values.side))
    THEN TRUE
    ELSE IF values.side[1] = "SELL"
         THEN values.price[1] > values.stop[1] /\ v <= values.stop[1]
         ELSE values.price[1] < values.stop[1] /\ v >= values.stop[1]

LimitOrderIn(order) ==
    /\ side_ok(order.side)
    /\ pos(order.price)
    /\ pos(order.qty)
    /\ tif_ok(order.tif)

OCOOrderIn(oco) ==
    /\ side_ok(oco.side)
    /\ pos(oco.quantity)
    /\ pos(oco.price)
    /\ pos(oco.stop)
    /\ pos(oco.stop_limit) /\ oco_relation(oco.stop_limit, OcoValues(oco))
    /\ tif_ok(oco.tif)

\* @validator("symbol") sym: if not v: raise ValueError
CancelOrderIn(body) == body.symbol # ""

\* what the framework makes of a body: the model object <<body>> when the
\* model accepts it, <<>> when validation fails
Parse(accepted, body) == IF accepted THEN <<body>> ELSE <<>>

----------------------------------------------------------------------------
(* Guardrails *)

\* mutant: the quantity cap is forgotten
_enforce_limits_notional_only(symbol, side, price, qty) ==
    IF MAX_NOTIONAL_PER_ORDER > 0 /\ price * qty > MAX_NOTIONAL_PER_ORDER
    THEN HTTPException(400, Msg("Notional exceeds MAX_NOTIONAL_PER_ORDER"))
    ELSE NoError

\* mutant: the caps themselves are refused (>= for >)
_enforce_limits_inclusive(symbol, side, price, qty) ==
    IF MAX_NOTIONAL_PER_ORDER > 0 /\ price * qty >= MAX_NOTIONAL_PER_ORDER
    THEN HTTPException(400, Msg("Notional exceeds MAX_NOTIONAL_PER_ORDER"))
    ELSE IF MAX_QTY_PER_ORDER > 0 /\ qty >= MAX_QTY_PER_ORDER
    THEN HTTPException(400, Msg("Quantity exceeds MAX_QTY_PER_ORDER"))
    ELSE NoError

_enforce_limits(symbol, side, price, qty) ==
    LET notional == price * qty
    IN  IF MAX_NOTIONAL_PER_ORDER > 0 /\ notional > MAX_NOTIONAL_PER_ORDER
        THEN HTTPException(400, Msg("Notional exceeds MAX_NOTIONAL_PER_ORDER"))
        ELSE IF MAX_QTY_PER_ORDER > 0 /\ qty > MAX_QTY_PER_ORDER
        THEN HTTPException(400, Msg("Quantity exceeds MAX_QTY_PER_ORDER"))
        ELSE NoError

\* An HTTP exchange with the venue as the client library reports it:
\* failed = no response (transport error or timeout, an httpx.TransportError);
\* otherwise a status, and a body that is JSON, empty or other text.
Reply(status, content, json) ==
    [failed |-> FALSE, status |-> status, content |-> content, json |-> json,
     text |-> CASE content = "empty" -> "" [] content = "json" -> "{..}"
                [] OTHER -> "<html>"]
NoReply == [failed |-> TRUE, status |-> 0, content |-> "empty", json |-> <<>>,
            text |-> ""]

\* r.raise_for_status() raises httpx.HTTPStatusError
IsErrorStatus(r) == r.status < 200 \/ r.status >= 300

\* _public_get + r.json()["price"] + float(): None on any exception
_get_last_price(r) ==
    IF r.failed \/ IsErrorStatus(r) \/ r.content # "json" THEN <<>>
    ELSE IF r.json.price = <<>> THEN <<>>
    ELSE ParseFloat(r.json.price[1])

\* mutant: no last price refuses the order (fail-closed)
_enforce_price_deviation_closed(user_price, last) ==
    IF last = <<>> THEN HTTPException(400, Msg("Price deviation > limit"))
    ELSE IF last[1] = 0 THEN Unhandled("ZeroDivisionError")
    ELSE IF Abs(user_price - last[1]) * 100 > MAX_PRICE_DEVIATION_PCT * last[1]
         THEN HTTPException(400, Msg("Price deviation > limit"))
         ELSE NoError

\* mutant: a deviation equal to the limit is refused (>= for >)
_enforce_price_deviation_inclusive(user_price, last) ==
    IF last = <<>> THEN NoError
    ELSE IF last[1] = 0 THEN Unhandled("ZeroDivisionError")
    ELSE IF Abs(user_price - last[1]) * 100 >= MAX_PRICE_DEVIATION_PCT * last[1]
         THEN HTTPException(400, Msg("Price deviation > limit"))
         ELSE NoError

\* mutant: a last price of 0 is treated as no price
_enforce_price_deviation_zero_open(user_price, last) ==
    IF last = <<>> \/ last[1] = 0 THEN NoError
    ELSE IF Abs(user_price - last[1]) * 100 > MAX_PRICE_DEVIATION_PCT * last[1]
         THEN HTTPException(400, Msg("Price deviation > limit"))
         ELSE NoError

\* the part of _enforce_price_deviation that follows the price fetch
\* (exact arithmetic: |u - last| / last * 100 > pct, for last # 0)
_enforce_price_deviation(user_price, last) ==
    IF last = <<>> THEN NoError
    ELSE IF last[1] = 0 THEN Unhandled("ZeroDivisionError")
    ELSE IF (last[1] > 0 /\ Abs(user_price - last[1]) * 100 > MAX_PRICE_DEVIATION_PCT * last[1])
            \/ (last[1] < 0 /\ Abs(user_price - last[1]) * 100 < MAX_PRICE_DEVIATION_PCT * last[1])
         THEN HTTPException(400, Msg("Price deviation > limit"))
         ELSE NoError

----------------------------------------------------------------------------
(* Clock and signing *)

\* mutant: the offset is not applied
_timestamp_ms_local == now

_timestamp_ms == now + time_offset_ms

\* hmac.new(secret, urlencode(params), sha256).hexdigest(), kept symbolic
_sign(params) == [hmac |-> BINANCE_API_SECRET, over |-> params]

\* mutant: only the key is tested
CredentialsSet_key_only == ~(BINANCE_API_KEY = "")

\* the credential test of _signed_request
CredentialsSet == ~(BINANCE_API_KEY = "" \/ BINANCE_API_SECRET = "")

\* mutant: the signature is computed before recvWindow is added
SignedParams_window_unsigned(params) ==
    LET p == params @@ ("timestamp" :> _timestamp_ms)
    IN  p @@ ("recvWindow" :> RECV_WINDOW_MS) @@ ("signature" :> _sign(p))

\* the parameters _signed_request transmits
SignedParams(params) ==
    LET p == params @@ ("timestamp" :> _timestamp_ms) @@ ("recvWindow" :> RECV_WINDOW_MS)
    IN  p @@ ("signature" :> _sign(p))

Call(method, path, params, headers) ==
    [method |-> method, path |-> path, params |-> params, headers |-> headers]

----------------------------------------------------------------------------
(* What the venue may answer *)

ErrJson == [code |-> -2010, msg |-> "rejected"]
AccountJson ==
    [balances |-> << [asset |-> "USDT", free |-> "1.0", locked |-> "2.0"],
                     [asset |-> "BTC",  free |-> "0.0", locked |-> "0.0"] >>]
VenueJson(route) ==
    CASE route = "balances" -> AccountJson
      [] route = "open-orders" -> [orders |-> <<>>]
      [] route = "exchangeInfo" -> [symbols |-> <<"BTCUSDT">>]
      [] OTHER -> [orderId |-> 7, status |-> "NEW"]

VenueReplies(route) ==
    {NoReply,
     Reply(200, "json", VenueJson(route)), Reply(200, "empty", <<>>),
     Reply(200, "text", <<>>),
     Reply(400, "json", ErrJson), Reply(400, "text", <<>>)}

PriceTexts == {FloatStr(p) : p \in Amounts} \cup {"abc"}
TickerReplies ==
    {NoReply, Reply(200, "text", <<>>), Reply(400, "json", ErrJson),
     Reply(200, "json", [price |-> <<>>])}
    \cup {Reply(200, "json", [price |-> <<t>>]) : t \in PriceTexts}

----------------------------------------------------------------------------
(* Exchange client *)

\* mutant: the venue's error body is never parsed
SignedResult_raw_text(r) ==
    IF r.failed THEN Unhandled("httpx.TransportError")
    ELSE IF IsErrorStatus(r)
    THEN HTTPException(r.status, [status_code |-> r.status, text |-> r.text])
    ELSE IF r.content = "empty" THEN Ok([ok |-> TRUE])
    ELSE IF r.content = "json" THEN Ok(r.json)
    ELSE Unhandled("JSONDecodeError")

\* what _signed_request returns or raises once the venue's answer is in
SignedResult(r) ==
    IF r.failed THEN Unhandled("httpx.TransportError")
    ELSE IF IsErrorStatus(r)
    THEN HTTPException(r.status,
            IF r.content = "json" THEN r.json
            ELSE [status_code |-> r.status, text |-> r.text])
    ELSE IF r.content = "empty" THEN Ok([ok |-> TRUE])
    ELSE IF r.content = "json" THEN Ok(r.json)
    ELSE Unhandled("JSONDecodeError")

\* what _public_get returns or raises
PublicResult(r) ==
    IF r.failed THEN Unhandled("httpx.TransportError")
    ELSE IF IsErrorStatus(r) THEN Unhandled("httpx.HTTPStatusError")
    ELSE IF r.content = "json" THEN Ok(r.json)
    ELSE Unhandled("JSONDecodeError")

\* the request ends with response e
Respond(r, e) ==
    /\ req' = [r EXCEPT !.pc = "done"]
    /\ resp' = e
    /\ sent' = sent

\* _signed_request up to the await of the HTTP call
_signed_request(r, method, path, params) ==
    IF ~CredentialsSet
    THEN Respond(r, HTTPException(500, Msg("BINANCE_API_KEY/BINANCE_API_SECRET not set")))
    ELSE /\ sent' = Append(sent, Call(method, path, SignedParams(params),
                                      [X_MBX_APIKEY |-> BINANCE_API_KEY]))
         /\ req' = [r EXCEPT !.pc = "venue"]
         /\ resp' = NoResp

\* _public_get up to the await of the HTTP call
_public_get(r, pc, path, params) ==
    /\ sent' = Append(sent, Call("GET", path, params, <<>>))
    /\ req' = [r EXCEPT !.pc = pc]
    /\ resp' = NoResp

----------------------------------------------------------------------------
(* Clock synchroniser *)

TimeValue(t, n, str) == [t |-> t, n |-> n, s |-> str]
TimeReplies ==
    {NoReply, Reply(503, "text", <<>>), Reply(200, "text", <<>>),
     Reply(200, "json", [serverTime |-> <<>>]),
     Reply(200, "json", [serverTime |-> <<TimeValue("null", 0, "")>>]),
     Reply(200, "json", [serverTime |-> <<TimeValue("str", 0, "soon")>>])}
    \cup {Reply(200, "json", [serverTime |-> <<TimeValue("int", R, "")>>]) : R \in ServerTimes}
    \cup {Reply(200, "json", [serverTime |-> <<TimeValue("str", 0, IntStr(R))>>]) : R \in ServerTimes}

\* the server times of the model and the decimal texts that denote them
IntText == [R \in ServerTimes |-> IntStr(R)]

\* int(x) of a JSON value: <<>> when it raises
ParseInt(v) ==
    CASE v.t = "int" -> <<v.n>>
      [] v.t = "str" ->
            LET hit == {R \in ServerTimes : IntText[R] = v.s}
            IN  IF hit = {} THEN <<>> ELSE <<CHOOSE R \in hit : TRUE>>
      [] OTHER -> <<>>

\* int(r.json()["serverTime"]) of _sync_time: <<>> when anything raised
ServerTime(r) ==
    IF r.failed \/ IsErrorStatus(r) \/ r.content # "json" THEN <<>>
    ELSE IF r.json.serverTime = <<>> THEN <<>>
    ELSE ParseInt(r.json.serverTime[1])

\* mutant: a failed sync resets the offset
_sync_time_reset(server_time, local) ==
    IF server_time = <<>>
    THEN [offset |-> 0, raised |-> FALSE, printed |-> "failed"]
    ELSE [offset |-> server_time[1] - local, raised |-> FALSE,
          printed |-> "offset_ms"]

\* mutant: the server time is stored first, the local time subtracted later
_sync_time_partial(server_time, local) ==
    IF server_time = <<>>
    THEN [offset |-> time_offset_ms, raised |-> FALSE, printed |-> "failed"]
    ELSE [offset |-> server_time[1], raised |-> FALSE, printed |-> "offset_ms"]

\* mutant: a failure escapes _sync_time (no except clause)
_sync_time_raising(server_time, local) ==
    IF server_time = <<>>
    THEN [offset |-> time_offset_ms, raised |-> TRUE, printed |-> "failed"]
    ELSE [offset |-> server_time[1] - local, raised |-> FALSE,
          printed |-> "offset_ms"]

\* what the try block of _sync_time may read off the venue's answer
ServerTimesRead == {ServerTime(r) : r \in TimeReplies}

\* _sync_time from the arrival of the answer on, server_time being what was
\* read off it and `local` the local clock: the offset it leaves behind, and
\* whether an exception escaped it (except Exception catches whatever the
\* try block raises)
_sync_time(server_time, local) ==
    IF server_time = <<>>
    THEN [offset |-> time_offset_ms, raised |-> FALSE, printed |-> "failed"]
    ELSE [offset |-> server_time[1] - local, raised |-> FALSE,
          printed |-> "offset_ms"]

\* the startup hook has finished: the server accepts requests
Served == sync \in {"sleep", "refresh"}

\* startup hook: await _sync_time(), up to the await of GET /api/v3/time
on_start ==
    /\ sync = "init"
    /\ sync' = "startup"
    /\ UNCHANGED <<config, time_offset_ms, now, printed, request>>

\* _sync_time ends with outcome o; the task then sleeps (on_start creates
\* the refresher, the refresher loops), or is dead if an exception escaped
SyncDone(o) ==
    /\ sync \in {"startup", "refresh"}
    /\ time_offset_ms' = o.offset
    /\ printed' = o.printed
    /\ sync' = IF o.raised THEN "dead" ELSE "sleep"
    /\ UNCHANGED <<config, now, request>>

\* the answer r to GET /api/v3/time arrives
TimeReplyWith(r) == SyncDone(_sync_time(ServerTime(r), now))

TimeReply ==
    /\ sync \in {"startup", "refresh"}
    /\ \E server_time \in ServerTimesRead : SyncDone(_sync_time(server_time, now))

\* refresher: asyncio.sleep(600) is over, _sync_time() issues its GET
refresher ==
    /\ sync = "sleep"
    /\ sync' = "refresh"
    /\ UNCHANGED <<config, time_offset_ms, now, printed, request>>

\* the local clock advances
Tick ==
    /\ \E t \in Times : t > now /\ now' = t
    /\ UNCHANGED <<config, time_offset_ms, sync, printed, request>>

----------------------------------------------------------------------------
(* Routes *)

\* a request as it arrives; req.body is the validated model the route's
\* function receives (none when a dependency or the validation refuses)
Inbound(route, x_agent_key) ==
    [Idle EXCEPT !.route = route, !.x_agent_key = x_agent_key]

Unauthorized == HTTPException(401, Msg("Unauthorized"))

\* the dependency raised: the body is never validated and the route's
\* function never entered
Reject(r) == Respond(r, Unauthorized)

LimitParams(order) ==
    [symbol |-> Upper(order.symbol), side |-> order.side, type |-> "LIMIT",
     timeInForce |-> order.tif, quantity |-> FloatStr(order.qty),
     price |-> FloatStr(order.price), newOrderRespType |-> "RESULT"]
    @@ (IF TruthyStr(order.client_id)
        THEN "newClientOrderId" :> order.client_id[1] ELSE <<>>)

OcoParams(oco) ==
    [symbol |-> Upper(oco.symbol), side |-> oco.side,
     quantity |-> FloatStr(oco.quantity), price |-> FloatStr(oco.price),
     stopPrice |-> FloatStr(oco.stop), stopLimitPrice |-> FloatStr(oco.stop_limit),
     stopLimitTimeInForce |-> oco.tif, newOrderRespType |-> "RESULT"]
    @@ (IF TruthyStr(oco.client_id)
        THEN "listClientOrderId" :> oco.client_id[1] ELSE <<>>)

\* mutant: orderId takes precedence (elif for the second if)
CancelParams_order_id_first(body) ==
    [symbol |-> Upper(body.symbol)]
    @@ (IF TruthyNum(body.orderId) THEN "orderId" :> body.orderId[1]
        ELSE IF TruthyStr(body.clientOrderId)
        THEN "origClientOrderId" :> body.clientOrderId[1] ELSE <<>>)

CancelParams(body) ==
    [symbol |-> Upper(body.symbol)]
    @@ (IF TruthyNum(body.orderId) THEN "orderId" :> body.orderId[1] ELSE <<>>)
    @@ (IF TruthyStr(body.clientOrderId)
        THEN "origClientOrderId" :> body.clientOrderId[1] ELSE <<>>)

\* the order routes once both guardrails have passed
DispatchOrder(r) ==
    IF r.route = "order/limit"
    THEN _signed_request(r, "POST", "/api/v3/order", LimitParams(r.body))
    ELSE _signed_request(r, "POST", "/api/v3/order/oco", OcoParams(r.body))

\* the order routes from _enforce_limits to their first await
GuardOrder(r, qty) ==
    LET e == _enforce_limits(r.body.symbol, r.body.side, r.body.price, qty)
    IN  IF e.kind # "none" THEN Respond(r, e)
        ELSE IF MAX_PRICE_DEVIATION_PCT <= 0 THEN DispatchOrder(r)
        ELSE _public_get(r, "ticker", "/api/v3/ticker/price",
                         [symbol |-> r.body.symbol])

LimitOrders ==
    [symbol : Symbols, side : Sides, price : Amounts, qty : Amounts,
     tif : Tifs, client_id : ClientIds]

\* place_limit is entered with the validated body, or the framework
\* answers 422 (parsed = <<>>)
LimitOrderParsed(x_agent_key, parsed) ==
    LET r == Inbound("order/limit", x_agent_key)
    IN  IF parsed = <<>> THEN Respond(r, RequestValidationError)
        ELSE GuardOrder([r EXCEPT !.body = parsed[1], !.handler = TRUE], parsed[1].qty)

\* the body of an admitted POST /api/order/limit arrives
LimitOrderBody(x_agent_key, order) ==
    LimitOrderParsed(x_agent_key, Parse(LimitOrderIn(order), order))

\* POST /api/order/limit
place_limit ==
    /\ req.pc = "idle" /\ Served
    /\ \E x_agent_key \in AgentHeaders :
          IF ~require_agent_key(x_agent_key)
          THEN Reject(Inbound("order/limit", x_agent_key))
          ELSE \E parsed \in {Parse(LimitOrderIn(order), order) : order \in LimitOrders} :
                  LimitOrderParsed(x_agent_key, parsed)
    /\ UNCHANGED <<config, clock>>

OcoOrders ==
    [symbol : Symbols, side : Sides, quantity : Amounts, price : Amounts,
     stop : Amounts, stop_limit : Amounts, tif : {"GTC"}, client_id : {<<"cid">>}]

\* place_oco is entered with the validated body, or the framework answers
\* 422 (parsed = <<>>)
OCOParsed(x_agent_key, parsed) ==
    LET r == Inbound("order/oco", x_agent_key)
    IN  IF parsed = <<>> THEN Respond(r, RequestValidationError)
        ELSE GuardOrder([r EXCEPT !.body = parsed[1], !.handler = TRUE],
                        parsed[1].quantity)

\* the body of an admitted POST /api/order/oco arrives
OCOBody(x_agent_key, oco) == OCOParsed(x_agent_key, Parse(OCOOrderIn(oco), oco))

\* POST /api/order/oco
place_oco ==
    /\ req.pc = "idle" /\ Served
    /\ \E x_agent_key \in AgentHeaders :
          IF ~require_agent_key(x_agent_key)
          THEN Reject(Inbound("order/oco", x_agent_key))
          ELSE \E parsed \in {Parse(OCOOrderIn(oco), oco) : oco \in OcoOrders} :
                  OCOParsed(x_agent_key, parsed)
    /\ UNCHANGED <<config, clock>>

\* _enforce_price_deviation from the return of _get_last_price on, then
\* _signed_request
PriceKnown(last) ==
    /\ req.pc = "ticker"
    /\ LET r == [req EXCEPT !.last = last]
           e == _enforce_price_deviation(req.body.price, last)
       IN  IF e.kind # "none" THEN Respond(r, e) ELSE DispatchOrder(r)
    /\ UNCHANGED <<config, clock>>

\* the ticker's answer t arrives
TickerReplyWith(t) == PriceKnown(_get_last_price(t))

\* what _get_last_price may return
LastPrices == {_get_last_price(t) : t \in TickerReplies}

TickerReply ==
    /\ req.pc = "ticker"
    /\ \E last \in LastPrices : PriceKnown(last)

\* mutant: the identifier test is forgotten
NoIdentifier_never(body) == FALSE

\* if not body.orderId and not body.clientOrderId
NoIdentifier(body) == ~TruthyNum(body.orderId) /\ ~TruthyStr(body.clientOrderId)

CancelBodies ==
    [symbol : Symbols \cup {""}, orderId : {<<>>, <<0>>, <<7>>},
     clientOrderId : {<<>>, <<"">>, <<"cid">>}]

\* cancel_order is entered with the validated body, or the framework
\* answers 422 (parsed = <<>>)
CancelParsed(x_agent_key, parsed) ==
    LET r == Inbound("order", x_agent_key)
    IN  IF parsed = <<>> THEN Respond(r, RequestValidationError)
        ELSE LET body == parsed[1]
                 h == [r EXCEPT !.body = body, !.handler = TRUE]
             IN  IF NoIdentifier(body)
                 THEN Respond(h, HTTPException(400, Msg("Provide orderId or clientOrderId")))
                 ELSE _signed_request(h, "DELETE", "/api/v3/order", CancelParams(body))

\* the body of an admitted DELETE /api/order arrives
CancelBody(x_agent_key, body) ==
    CancelParsed(x_agent_key, Parse(CancelOrderIn(body), body))

\* DELETE /api/order
cancel_order ==
    /\ req.pc = "idle" /\ Served
    /\ \E x_agent_key \in AgentHeaders :
          IF ~require_agent_key(x_agent_key)
          THEN Reject(Inbound("order", x_agent_key))
          ELSE \E parsed \in {Parse(CancelOrderIn(body), body) : body \in CancelBodies} :
                  CancelParsed(x_agent_key, parsed)
    /\ UNCHANGED <<config, clock>>

\* the `assets` query of /api/balances, already split at the commas
AssetQueries == {<<>>, <<<<" usdt">>>>}
AssetUpper(a) == CASE a = " usdt" -> "USDT" [] OTHER -> a

\* GET /api/balances
balances ==
    /\ req.pc = "idle" /\ Served
    /\ \E x_agent_key \in AgentHeaders :
          IF ~require_agent_key(x_agent_key)
          THEN Reject(Inbound("balances", x_agent_key))
          ELSE \E assets \in AssetQueries :
                  _signed_request([Inbound("balances", x_agent_key) EXCEPT
                                      !.body = [assets |-> assets], !.handler = TRUE],
                                  "GET", "/api/v3/account", <<>>)
    /\ UNCHANGED <<config, clock>>

SymbolQueries == {<<>>, <<"BTCUSDT">>}
SymbolParams(symbol) == IF TruthyStr(symbol) THEN [symbol |-> symbol[1]] ELSE <<>>

\* GET /api/open-orders
open_orders ==
    /\ req.pc = "idle" /\ Served
    /\ \E x_agent_key \in AgentHeaders :
          IF ~require_agent_key(x_agent_key)
          THEN Reject(Inbound("open-orders", x_agent_key))
          ELSE \E symbol \in SymbolQueries :
                  _signed_request([Inbound("open-orders", x_agent_key) EXCEPT
                                      !.body = [symbol |-> symbol], !.handler = TRUE],
                                  "GET", "/api/v3/openOrders", SymbolParams(symbol))
    /\ UNCHANGED <<config, clock>>

\* GET /api/health (no auth dependency)
health ==
    /\ req.pc = "idle" /\ Served
    /\ \E x_agent_key \in AgentHeaders :
          Respond([Inbound("health", x_agent_key) EXCEPT !.handler = TRUE],
                  Ok([ok |-> TRUE, time_offset_ms |-> time_offset_ms]))
    /\ UNCHANGED <<config, clock>>

\* GET /api/exchangeInfo (no auth dependency)
exchange_info ==
    /\ req.pc = "idle" /\ Served
    /\ \E x_agent_key \in AgentHeaders, symbol \in SymbolQueries :
          _public_get([Inbound("exchangeInfo", x_agent_key) EXCEPT
                          !.body = [symbol |-> symbol], !.handler = TRUE],
                      "public", "/api/v3/exchangeInfo", SymbolParams(symbol))
    /\ UNCHANGED <<config, clock>>

\* the answer to the public GET of exchange_info arrives
PublicReplyWith(v) ==
    /\ req.pc = "public"
    /\ Respond(req, PublicResult(v))
    /\ UNCHANGED <<config, clock>>

PublicReply ==
    /\ req.pc = "public"
    /\ \E v \in VenueReplies(req.route) : PublicReplyWith(v)

RECURSIVE NonZeroBalances(_, _)
\* the balances loop: rows of `bals` wanted and not all zero
NonZeroBalances(bals, assets) ==
    IF bals = <<>> THEN <<>>
    ELSE LET b == Head(bals)
             free == ParseFloat(b.free)[1]
             locked == ParseFloat(b.locked)[1]
             wanted == TruthyNum(<<Len(assets)>>) =>
                          b.asset \in {AssetUpper(assets[1][i]) : i \in 1..Len(assets[1])}
             row == IF wanted /\ (free # 0 \/ locked # 0)
                    THEN << [asset |-> b.asset, free |-> free, locked |-> locked,
                             total |-> free + locked] >>
                    ELSE <<>>
         IN  row \o NonZeroBalances(Tail(bals), assets)

\* what the route returns for the venue's parsed body `res`
RouteResult(r, res) ==
    CASE r.route = "balances" ->
            [balances |-> NonZeroBalances(
                IF "balances" \in DOMAIN res THEN res.balances ELSE <<>>,
                r.body.assets)]
      [] r.route = "open-orders" -> res
      [] OTHER -> [ok |-> TRUE, binance |-> res]

\* mutant: a call that got no answer is issued once more
VenueReplyWith_retry(v) ==
    /\ req.pc = "venue"
    /\ IF v.failed /\ Len(sent) < 3
       THEN sent' = Append(sent, sent[Len(sent)]) /\ req' = req /\ resp' = resp
       ELSE LET res == SignedResult(v)
            IN  IF res.kind # "ok" THEN Respond(req, res)
                ELSE Respond(req, Ok(RouteResult(req, res.detail)))
    /\ UNCHANGED <<config, clock>>

\* the venue's answer to the signed call arrives: the rest of
\* _signed_request and of the route
VenueReplyWith(v) ==
    /\ req.pc = "venue"
    /\ LET res == SignedResult(v)
       IN  IF res.kind # "ok" THEN Respond(req, res)
           ELSE Respond(req, Ok(RouteResult(req, res.detail)))
    /\ UNCHANGED <<config, clock>>

VenueReply ==
    /\ req.pc = "venue"
    /\ \E v \in VenueReplies(req.route) : VenueReplyWith(v)

\* the response is delivered; the server takes the next request
Complete ==
    /\ req.pc = "done"
    /\ req' = Idle /\ sent' = <<>> /\ resp' = NoResp
    /\ UNCHANGED <<config, clock>>

----------------------------------------------------------------------------
(* The system *)

Init ==
    /\ AGENT_KEY \in {"", "agent-secret"}
    /\ BINANCE_API_KEY \in {"", "api-key"}
    /\ BINANCE_API_SECRET \in {"", "api-secret"}
    /\ MAX_NOTIONAL_PER_ORDER \in {0, NotionalCap}
    /\ MAX_QTY_PER_ORDER \in {0, QtyCap}
    /\ MAX_PRICE_DEVIATION_PCT \in {0, DevCap}
    /\ time_offset_ms = 0
    /\ now \in Times
    /\ sync = "init"
    /\ printed = ""
    /\ req = Idle
    /\ sent = <<>>
    /\ resp = NoResp

Next ==
    \/ on_start \/ TimeReply \/ refresher \/ Tick
    \/ health \/ exchange_info \/ balances \/ open_orders
    \/ place_limit \/ place_oco \/ cancel_order
    \/ TickerReply \/ PublicReply \/ VenueReply \/ Complete

Spec == Init /\ [][Next]_vars

\* The event loop runs every ready task: the startup hook is run, the
\* refresher's sleep(600) ends, and the client's 15 s timeout ends every
\* GET /api/v3/time with an answer or a failure.
LiveSpec ==
    Spec /\ WF_vars(on_start) /\ WF_vars(TimeReply) /\ WF_vars(refresher)

----------------------------------------------------------------------------
(* Vocabulary of the properties *)

OrderRoutes == {"order/limit", "order/oco"}
AuthRoutes == {"balances", "open-orders", "order/limit", "order/oco", "order"}
TickerPath == "/api/v3/ticker/price"

\* a call that carries a signature and the API key
IsSigned(c) == "signature" \in DOMAIN c.params \/ c.headers # <<>>
Dispatched(method) == {i \in 1..Len(sent) : sent[i].method = method /\ IsSigned(sent[i])}

OrderQty == IF req.route = "order/limit" THEN req.body.qty ELSE req.body.quantity

\* the notional or the quantity of the order in hand is over its enabled cap
OverLimits ==
    \/ MAX_NOTIONAL_PER_ORDER > 0 /\ req.body.price * OrderQty > MAX_NOTIONAL_PER_ORDER
    \/ MAX_QTY_PER_ORDER > 0 /\ OrderQty > MAX_QTY_PER_ORDER

\* a last price was obtained and the order's price is further from it than
\* the enabled percentage (a last price of 0 never passes)
OverDeviation ==
    /\ req.last # <<>>
    /\ Abs(req.body.price - req.last[1]) * 100 > MAX_PRICE_DEVIATION_PCT * req.last[1]

\* the ticker's answer yields no last price: transport failure, non-2xx,
\* a body that is not JSON, no "price" in it, or a price that is no number
Unfetchable(t) ==
    \/ t.failed
    \/ t.status < 200 \/ t.status > 299
    \/ t.content # "json"
    \/ t.json.price = <<>>
    \/ t.json.price[1] = "abc"

ConfigurationError ==
    [kind |-> "HTTPException", status |-> 500,
     detail |-> [msg |-> "BINANCE_API_KEY/BINANCE_API_SECRET not set"]]

OcoPath == "/api/v3/order/oco"

\* an identifier of a cancel body is present (None, 0 and "" are not)
HasOrderId(body) == body.orderId # <<>> /\ body.orderId[1] # 0
HasClientOrderId(body) == body.clientOrderId # <<>> /\ body.clientOrderId[1] # ""

CredentialsUnset == BINANCE_API_KEY = "" \/ BINANCE_API_SECRET = ""

\* the request in hand got as far as the signed call: its function was
\* entered and no check of the route refused it or is still awaiting the
\* ticker
SignedCallAttempted ==
    /\ req.route \in AuthRoutes /\ req.handler
    /\ req.route \in OrderRoutes =>
          /\ ~OverLimits
          /\ req.pc # "ticker"
          /\ MAX_PRICE_DEVIATION_PCT > 0 => (req.last = <<>> \/ ~OverDeviation)
    /\ req.route = "order" => (HasOrderId(req.body) \/ HasClientOrderId(req.body))

\* the venue's answer to GET /api/v3/time from which no server time can be
\* read: no answer, a non-2xx status, a body that is not JSON, no
\* serverTime in it, or a serverTime that is no integer
SyncFails(r) ==
    \/ r.failed
    \/ r.status < 200 \/ r.status > 299
    \/ r.content # "json"
    \/ r.json.serverTime = <<>>
    \/ r.json.serverTime[1].t = "null"
    \/ r.json.serverTime[1].t = "str" /\ r.json.serverTime[1].s = "soon"

\* what a route makes of the value `res` that _signed_request returned:
\* the order routes wrap it, open-orders returns it as it is
Wraps(route, detail, res) ==
    CASE route \in {"order/limit", "order/oco", "order"} ->
            detail = [ok |-> TRUE, binance |-> res]
      [] route = "open-orders" -> detail = res
      [] OTHER -> "balances" \in DOMAIN detail

\* the offsets a successful sync can store, and the initial 0
CompleteOffsets == {0} \cup {R - L : R \in ServerTimes, L \in Times}

\* the server time an answer that does not fail carries
RemoteTime(r) ==
    IF r.json.serverTime[1].t = "int" THEN r.json.serverTime[1].n
    ELSE CHOOSE R \in ServerTimes : IntStr(R) = r.json.serverTime[1].s

\* the OCO price relation of the order semantics
OcoRelation(side, price, stop, stop_limit) ==
    \/ side = "SELL" /\ price > stop /\ stop_limit <= stop
    \/ side = "BUY" /\ price < stop /\ stop_limit >= stop

----------------------------------------------------------------------------
(* C1: for a limit or OCO placement, a signed POST is in flight or was sent  *)
(* only if the notional/quantity check and then the price-deviation check    *)
(* both completed without failure for that request: an order over a cap, or  *)
(* too far from the last price obtained, is never dispatched.                *)
C1_DispatchOnlyAfterBothChecks ==
    req.route \in OrderRoutes =>
        \A i \in 1..Len(sent) :
            sent[i].method = "POST" =>
                /\ req.handler
                /\ ~OverLimits
                /\ MAX_PRICE_DEVIATION_PCT > 0 =>
                      /\ i = 2
                      /\ sent[1].path = TickerPath /\ sent[1].method = "GET"
                      /\ ~OverDeviation
                /\ MAX_PRICE_DEVIATION_PCT <= 0 => i = 1

\* an OCO order too far from the last price was refused after the ticker call
C1_Witness ==
    /\ req.route = "order/oco" /\ req.pc = "done" /\ req.handler
    /\ MAX_PRICE_DEVIATION_PCT > 0 /\ req.last # <<>> /\ req.last[1] > 0
    /\ OverDeviation
    /\ Len(sent) = 1 /\ sent[1].path = TickerPath
    /\ resp.kind = "HTTPException" /\ resp.status = 400

(* C2: with the deviation check enabled, a ticker answer that yields no last *)
(* price lets a limit order go on to the signed call (the POST when the      *)
(* credentials are set, the credential error otherwise); and a limit order   *)
(* over a cap is refused with 400 before any call, the ticker included.      *)
C2_FailOpenStep ==
    (req.pc = "ticker" /\ req.route = "order/limit" /\ MAX_PRICE_DEVIATION_PCT > 0) =>
    \A t \in TickerReplies :
        (Unfetchable(t) /\ TickerReplyWith(t))
        => IF BINANCE_API_KEY # "" /\ BINANCE_API_SECRET # ""
           THEN /\ req'.pc = "venue"
                /\ Len(sent') = 2 /\ sent'[1] = sent[1]
                /\ sent'[2].method = "POST" /\ sent'[2].path = "/api/v3/order"
                /\ IsSigned(sent'[2])
           ELSE req'.pc = "done" /\ resp' = ConfigurationError /\ sent' = sent

C2_LimitsBlock ==
    (req.route = "order/limit" /\ req.handler /\ OverLimits)
    => req.pc = "done" /\ sent = <<>> /\ resp.kind = "HTTPException" /\ resp.status = 400

C2_FailOpenLimitsClosed == [][C2_FailOpenStep]_vars /\ []C2_LimitsBlock

\* a limit order was dispatched although no last price could be fetched
C2_Witness ==
    /\ req.route = "order/limit" /\ req.pc = "venue"
    /\ MAX_PRICE_DEVIATION_PCT > 0 /\ req.last = <<>>
    /\ Len(sent) = 2 /\ sent[1].path = TickerPath /\ sent[2].method = "POST"

(* C3: for positive price and qty, the limits check refuses the order (400   *)
(* before any call) if and only if the notional is strictly over an enabled  *)
(* notional cap or the quantity strictly over an enabled quantity cap; a cap *)
(* of 0 disables its check and a value equal to its cap passes.              *)
C3_CheckLimits ==
    (req.route \in OrderRoutes /\ req.handler) =>
        ((req.pc = "done" /\ sent = <<>> /\ resp.kind = "HTTPException"
            /\ resp.status = 400)
         <=> OverLimits)

\* an order exactly at both caps passed the check
C3_Witness ==
    /\ req.route = "order/limit" /\ req.handler
    /\ MAX_NOTIONAL_PER_ORDER > 0 /\ req.body.price * req.body.qty = MAX_NOTIONAL_PER_ORDER
    /\ MAX_QTY_PER_ORDER > 0 /\ req.body.qty = MAX_QTY_PER_ORDER
    /\ sent # <<>>

(* C4: every signed POST to the OCO endpoint carries a side, price, stop     *)
(* price and stop-limit price with (SELL, price > stop, stop_limit <= stop)  *)
(* or (BUY, price < stop, stop_limit >= stop), and place_oco is entered only *)
(* with such a body (SELL with stop_limit > stop, BUY with price = stop are  *)
(* refused); an OCO body with positive amounts that satisfies the relation   *)
(* is accepted (SELL 2/1/1, BUY 1/2/2): no request answered without entering *)
(* place_oco carried one.                                                    *)
C4_RelationOnTheWire ==
    /\ \A i \in 1..Len(sent) :
          sent[i].path = OcoPath =>
              LET p == sent[i].params
                  price == ParseFloat(p.price)
                  stop == ParseFloat(p.stopPrice)
                  stop_limit == ParseFloat(p.stopLimitPrice)
              IN  /\ price # <<>> /\ stop # <<>> /\ stop_limit # <<>>
                  /\ OcoRelation(p.side, price[1], stop[1], stop_limit[1])
    /\ (req.route = "order/oco" /\ req.handler) =>
          OcoRelation(req.body.side, req.body.price, req.body.stop, req.body.stop_limit)

\* the OCO bodies with positive amounts that satisfy the relation
C4_RelatedOrders ==
    {o \in OcoOrders :
        /\ o.quantity > 0 /\ o.price > 0 /\ o.stop > 0 /\ o.stop_limit > 0
        /\ OcoRelation(o.side, o.price, o.stop, o.stop_limit)}

C4_AcceptStep ==
    (req.pc = "idle" /\ req'.route = "order/oco" /\ ~req'.handler /\ AGENT_KEY # "") =>
        \A oco \in C4_RelatedOrders : ~OCOBody(<<AGENT_KEY>>, oco)

C4_OcoRelation == []C4_RelationOnTheWire /\ [][C4_AcceptStep]_vars

\* a SELL OCO with price > stop = stop_limit is on its way to the venue
C4_Witness ==
    /\ req.route = "order/oco" /\ req.pc = "venue"
    /\ req.body.side = "SELL" /\ req.body.price > req.body.stop
    /\ req.body.stop_limit = req.body.stop
    /\ \E i \in 1..Len(sent) : sent[i].path = OcoPath /\ sent[i].method = "POST"

(* C5: a cancel request that supplies neither orderId nor clientOrderId is   *)
(* answered 400 with no outbound call at all; every outbound call of a       *)
(* cancel request belongs to a body that supplied an identifier.             *)
C5_CancelNeedsIdentifier ==
    req.route = "order" =>
        /\ (req.handler /\ req.body.orderId = <<>> /\ req.body.clientOrderId = <<>>) =>
              /\ req.pc = "done" /\ sent = <<>>
              /\ resp.kind = "HTTPException" /\ resp.status = 400
        /\ sent # <<>> =>
              /\ req.handler
              /\ req.body.orderId # <<>> \/ req.body.clientOrderId # <<>>

\* a cancel request without identifiers was answered 400
C5_Witness ==
    /\ req.route = "order" /\ req.pc = "done" /\ req.handler
    /\ req.body.orderId = <<>> /\ req.body.clientOrderId = <<>>
    /\ resp.status = 400 /\ sent = <<>>

(* C6 as stated: a signed DELETE is dispatched only for a cancel body in     *)
(* which exactly one of the two identifiers is present, and a body with both *)
(* is refused with a 4xx without any call.                                   *)
C6_ExactlyOne ==
    req.route = "order" =>
        /\ Dispatched("DELETE") # {} =>
              (HasOrderId(req.body) /\ ~HasClientOrderId(req.body))
              \/ (~HasOrderId(req.body) /\ HasClientOrderId(req.body))
        /\ (req.handler /\ HasOrderId(req.body) /\ HasClientOrderId(req.body)) =>
              /\ req.pc = "done" /\ sent = <<>>
              /\ resp.status >= 400 /\ resp.status < 500

(* C6: a signed DELETE is dispatched only for a cancel body in which at      *)
(* least one of the two identifiers is present (0 and "" count as absent); a *)
(* body with both is not refused by cancel_order: with the credentials set   *)
(* its DELETE carries both orderId and origClientOrderId; a body with        *)
(* neither is answered 400 without any call.                                 *)
C6_AtLeastOne ==
    req.route = "order" =>
        /\ Dispatched("DELETE") # {} =>
              /\ req.handler
              /\ HasOrderId(req.body) \/ HasClientOrderId(req.body)
        /\ (req.handler /\ HasOrderId(req.body) /\ HasClientOrderId(req.body)) =>
              IF CredentialsUnset
              THEN req.pc = "done" /\ sent = <<>> /\ resp = ConfigurationError
              ELSE /\ Len(sent) = 1 /\ sent[1].method = "DELETE"
                   /\ sent[1].path = "/api/v3/order" /\ IsSigned(sent[1])
                   /\ {"orderId", "origClientOrderId"} \subseteq DOMAIN sent[1].params
                   /\ sent[1].params.orderId = req.body.orderId[1]
                   /\ sent[1].params.origClientOrderId = req.body.clientOrderId[1]
        /\ (req.handler /\ ~HasOrderId(req.body) /\ ~HasClientOrderId(req.body)) =>
              /\ req.pc = "done" /\ sent = <<>>
              /\ resp.kind = "HTTPException" /\ resp.status = 400

\* a cancel with both identifiers is on its way to the venue
C6_Witness ==
    /\ req.route = "order" /\ req.pc = "venue"
    /\ HasOrderId(req.body) /\ HasClientOrderId(req.body)
    /\ Len(sent) = 1 /\ sent[1].method = "DELETE"
    /\ {"orderId", "origClientOrderId"} \subseteq DOMAIN sent[1].params

(* C7: while the API key or the API secret is unset, no call carrying a      *)
(* signature, a timestamp or the API key is ever issued, and a request that  *)
(* gets as far as the signed call is answered with the configuration error   *)
(* (500); the gateway keeps serving: a later health request is answered 200. *)
C7_MissingCredentials ==
    CredentialsUnset =>
        /\ \A i \in 1..Len(sent) :
              /\ ~IsSigned(sent[i])
              /\ "timestamp" \notin DOMAIN sent[i].params
        /\ req.pc # "venue"
        /\ SignedCallAttempted => req.pc = "done" /\ resp = ConfigurationError
        /\ (req.route = "health" /\ req.pc = "done") => resp.status = 200

\* an order passed its checks and was answered with the configuration error
C7_Witness ==
    /\ BINANCE_API_KEY # "" /\ BINANCE_API_SECRET = ""
    /\ req.route = "order/limit" /\ req.pc = "done" /\ req.handler
    /\ MAX_PRICE_DEVIATION_PCT > 0 /\ req.last # <<>>
    /\ resp = ConfigurationError
    /\ Len(sent) = 1 /\ sent[1].path = TickerPath

(* C8: on balances, open-orders, order/limit, order/oco and DELETE order, a  *)
(* request whose X-Agent-Key header is absent or differs from AGENT_KEY is   *)
(* answered 401, its function is not entered and no call is issued for it; a *)
(* request whose header equals a configured (non-empty) AGENT_KEY is not     *)
(* answered 401: its body is validated and, if valid, its function entered.  *)
C8_AgentKey ==
    (req.route \in AuthRoutes /\ req.pc # "idle") =>
        /\ req.x_agent_key # <<AGENT_KEY>> =>
              /\ req.pc = "done" /\ resp.kind = "HTTPException" /\ resp.status = 401
              /\ ~req.handler /\ sent = <<>>
        /\ (req.x_agent_key = <<AGENT_KEY>> /\ AGENT_KEY # "") =>
              /\ resp.status # 401
              /\ req.handler \/ (resp.kind = "validation" /\ req.pc = "done")

\* a balances request without the header was answered 401
C8_Witness ==
    /\ AGENT_KEY # "" /\ req.route = "balances" /\ req.x_agent_key = <<>>
    /\ req.pc = "done" /\ resp.status = 401 /\ ~req.handler /\ sent = <<>>

(* C9: when the answer to GET /api/v3/time yields no server time (no answer, *)
(* non-2xx, no JSON, serverTime missing or no integer), _sync_time leaves    *)
(* time_offset_ms as it was and returns normally: the startup hook or the    *)
(* refresher goes on to its sleep.                                           *)
C9_FailedSyncStep ==
    (sync \in {"startup", "refresh"} /\ sync' # sync) =>
        \A r \in TimeReplies :
            (SyncFails(r) /\ TimeReplyWith(r))
            => time_offset_ms' = time_offset_ms /\ sync' = "sleep"

C9_FailedSyncKeepsOffset == [][C9_FailedSyncStep]_vars

\* a sync failed after an earlier one had set a non-zero offset
C9_Witness ==
    /\ printed = "failed" /\ sync = "sleep" /\ time_offset_ms # 0

(* C10: a sync that reads server time R while the local clock reads L leaves *)
(* time_offset_ms = R - L; the offset changes in no other step; and every    *)
(* signed call issued at local time T carries timestamp T + time_offset_ms   *)
(* (R = 1000000, L = 999000: offset 1000, and 1000500 at T = 999500).        *)
C10_OffsetStep ==
    /\ (sync \in {"startup", "refresh"} /\ sync' # sync) =>
          \A r \in TimeReplies :
              (~SyncFails(r) /\ TimeReplyWith(r))
              => time_offset_ms' = RemoteTime(r) - now
    /\ time_offset_ms' # time_offset_ms =>
          \E r \in TimeReplies : ~SyncFails(r) /\ TimeReplyWith(r)
    /\ (Len(sent') = Len(sent) + 1 /\ IsSigned(sent'[Len(sent')])) =>
          sent'[Len(sent')].params.timestamp = now + time_offset_ms

C10_OffsetAndTimestamp == [][C10_OffsetStep]_vars

\* after a sync at L = 999000 (offset 1000) a signed call left at T = 999500
C10_Witness ==
    /\ time_offset_ms = 1000 /\ now = 999500 /\ req.pc = "venue"
    /\ sent[Len(sent)].params.timestamp = 1000500

(* C11: in every signed call sent, the signature is the HMAC under the API   *)
(* secret of exactly the parameters transmitted with it other than the       *)
(* signature: the caller's parameters, this call's timestamp and recvWindow. *)
C11_SignatureCoversTransmitted ==
    \A i \in 1..Len(sent) :
        "signature" \in DOMAIN sent[i].params =>
            LET p == sent[i].params
                others == DOMAIN p \ {"signature"}
            IN  /\ p.signature.hmac = BINANCE_API_SECRET
                /\ DOMAIN p.signature.over = others
                /\ \A k \in others : p.signature.over[k] = p[k]
                /\ {"timestamp", "recvWindow"} \subseteq others
                /\ p.recvWindow = 5000
                /\ sent[i].headers = [X_MBX_APIKEY |-> BINANCE_API_KEY]

\* a signed limit order carrying the caller's optional client id is in flight
C11_Witness ==
    /\ req.route = "order/limit" /\ req.pc = "venue"
    /\ "newClientOrderId" \in DOMAIN sent[Len(sent)].params.signature.over
    /\ "recvWindow" \in DOMAIN sent[Len(sent)].params.signature.over

(* C12: a place_limit, place_oco or cancel_order request issues at most one  *)
(* signed call, only once its checks have passed, and exactly one (POST for  *)
(* the orders, DELETE for the cancel) when they passed and the credentials   *)
(* are set; when that call fails it is not issued again and the request ends *)
(* with the failure.                                                         *)
C12_OneSignedCall ==
    req.route \in {"order/limit", "order/oco", "order"} =>
        LET signed == {i \in 1..Len(sent) : IsSigned(sent[i])}
        IN  /\ Cardinality(signed) <= 1
            /\ signed # {} => SignedCallAttempted
            /\ (SignedCallAttempted /\ ~CredentialsUnset) =>
                  /\ Cardinality(signed) = 1
                  /\ \A i \in signed :
                        /\ i = Len(sent)
                        /\ sent[i].method = (IF req.route = "order" THEN "DELETE" ELSE "POST")
            /\ (signed # {} /\ req.pc = "done" /\ resp.kind # "ok") =>
                  /\ resp.kind \in {"HTTPException", "unhandled"}
                  /\ resp.status >= 400

\* the one signed call of an OCO order got no answer and the request failed
C12_Witness ==
    /\ req.route = "order/oco" /\ req.pc = "done"
    /\ Len(sent) = 2 /\ IsSigned(sent[2]) /\ ~IsSigned(sent[1])
    /\ resp.kind = "unhandled"

(* C13: when the venue answers a signed call with a non-2xx status, the      *)
(* request ends with an HTTPException of that status whose detail is the     *)
(* venue's JSON body, or {status_code, text} when the body is not JSON; when *)
(* it answers 2xx, the route gets the parsed body, or {"ok": true} for an    *)
(* empty body.                                                               *)
C13_VenueAnswerStep ==
    (req.pc = "venue" /\ req'.pc = "done") =>
        \A v \in VenueReplies(req.route) :
            (~v.failed /\ VenueReplyWith(v)) =>
                IF v.status < 200 \/ v.status > 299
                THEN /\ resp'.kind = "HTTPException" /\ resp'.status = v.status
                     /\ resp'.detail = IF v.content = "json" THEN v.json
                                       ELSE [status_code |-> v.status, text |-> v.text]
                ELSE /\ v.content = "json" =>
                           resp'.kind = "ok" /\ Wraps(req.route, resp'.detail, v.json)
                     /\ v.content = "empty" =>
                           resp'.kind = "ok" /\ Wraps(req.route, resp'.detail, [ok |-> TRUE])

C13_RemoteErrorShape == [][C13_VenueAnswerStep]_vars

\* the venue refused a cancel with a JSON error body, which the caller got
C13_Witness ==
    /\ req.route = "order" /\ req.pc = "done" /\ Len(sent) = 1
    /\ resp.kind = "HTTPException" /\ resp.status = 400
    /\ resp.detail = [code |-> -2010, msg |-> "rejected"]

(* C14: when a signed call gets no HTTP response (transport failure or the   *)
(* client's timeout), the request ends with an HTTPException, the error kind *)
(* used for the venue's non-2xx answers, and not with an unmapped exception. *)
C14_TransportFailureStep ==
    (req.pc = "venue" /\ req'.pc = "done") =>
        \A v \in VenueReplies(req.route) :
            (v.failed /\ VenueReplyWith(v)) =>
                resp'.kind = "HTTPException" /\ resp'.kind # "unhandled"

C14_TransportFailureIsRemoteError == [][C14_TransportFailureStep]_vars

\* a signed limit order got no answer and the request ended with an
\* exception nothing maps
C14_Witness ==
    /\ req.route = "order/limit" /\ req.pc = "done"
    /\ sent # <<>> /\ IsSigned(sent[Len(sent)])
    /\ resp = Unhandled("httpx.TransportError")

(* C15: when the venue answers the public GET of /api/exchangeInfo with a    *)
(* non-2xx status, the request ends with an HTTPException of that status     *)
(* whose detail is the venue's JSON body, or {status_code, text} when the    *)
(* body is not JSON, as for a signed call.                                   *)
C15_PublicAnswerStep ==
    (req.pc = "public" /\ req'.pc = "done") =>
        \A v \in VenueReplies(req.route) :
            (~v.failed /\ (v.status < 200 \/ v.status > 299) /\ PublicReplyWith(v)) =>
                /\ resp'.kind = "HTTPException" /\ resp'.status = v.status
                /\ resp'.detail = IF v.content = "json" THEN v.json
                                  ELSE [status_code |-> v.status, text |-> v.text]

C15_PublicGetRemoteError == [][C15_PublicAnswerStep]_vars

\* the venue refused the public GET and the request ended with an exception
\* nothing maps
C15_Witness ==
    /\ req.route = "exchangeInfo" /\ req.pc = "done" /\ Len(sent) = 1
    /\ resp = Unhandled("httpx.HTTPStatusError")

(* C16: however the clock synchroniser and the request handlers interleave,  *)
(* time_offset_ms changes only in a step of _sync_time (never in a step of a *)
(* request), it is always 0 or the whole difference server time - local time *)
(* of a sync, and the timestamp of a signed call is built from the value     *)
(* stored at that moment.                                                    *)
C16_OffsetWhole == time_offset_ms \in CompleteOffsets

C16_WriterStep ==
    /\ time_offset_ms' # time_offset_ms =>
          /\ sync \in {"startup", "refresh"} /\ sync' = "sleep"
          /\ req' = req /\ sent' = sent /\ resp' = resp
    /\ (req' # req \/ sent' # sent \/ resp' # resp) =>
          time_offset_ms' = time_offset_ms
    /\ (Len(sent') = Len(sent) + 1 /\ "timestamp" \in DOMAIN sent'[Len(sent')].params) =>
          /\ sent'[Len(sent')].params.timestamp - now = time_offset_ms
          /\ sent'[Len(sent')].params.timestamp - now \in CompleteOffsets

C16_OffsetUnderInterleaving == []C16_OffsetWhole /\ [][C16_WriterStep]_vars

\* a refresh stored offset 1000 while a call signed under offset 0 was in flight
C16_Witness ==
    /\ req.pc = "venue" /\ sync = "sleep"
    /\ sent[Len(sent)].params.timestamp = 999000
    /\ time_offset_ms = 1000

(* C17: the startup hook runs _sync_time once and it completes, with the     *)
(* offset still 0 if it failed, before the refresher exists and before any   *)
(* request is served; from then on the refresher never ends, whatever the    *)
(* outcome of a sync, and starts another sync again and again.               *)
C17_StartupFirst ==
    /\ sync \in {"init", "startup", "sleep", "refresh"}
    /\ sync \in {"init", "startup"} =>
          /\ time_offset_ms = 0 /\ printed = ""
          /\ req.pc = "idle" /\ sent = <<>>
    /\ sync \in {"sleep", "refresh"} => printed \in {"failed", "offset_ms"}

C17_StartupStep ==
    /\ (sync = "startup" /\ sync' # sync) =>
          /\ sync' = "sleep"
          /\ printed' = "failed" => time_offset_ms' = 0
    /\ (sync = "refresh" /\ sync' # sync) => sync' = "sleep"
    /\ sync' = "refresh" => sync \in {"sleep", "refresh"}

C17_SyncForever ==
    /\ []C17_StartupFirst
    /\ [][C17_StartupStep]_vars
    /\ []<>(sync = "refresh")

\* the refresher is in a new round although the last sync failed
C17_Witness ==
    /\ sync = "refresh" /\ printed = "failed" /\ time_offset_ms = 0

(* C18: with MAX_PRICE_DEVIATION_PCT <= 0 an order that passed the limits    *)
(* check goes to the signed call without any ticker call; with it enabled    *)
(* and a last price last > 0 obtained, the order is refused with 400 after   *)
(* the ticker call (and nothing else sent) if and only if                    *)
(* |price - last| / last * 100 > MAX_PRICE_DEVIATION_PCT, so a deviation     *)
(* equal to the limit passes.                                                *)
C18_PriceDeviation ==
    (req.route \in OrderRoutes /\ req.handler /\ ~OverLimits) =>
        /\ MAX_PRICE_DEVIATION_PCT <= 0 =>
              /\ req.pc # "ticker" /\ req.last = <<>>
              /\ \A i \in 1..Len(sent) : sent[i].path # TickerPath
              /\ ~(resp.kind = "HTTPException" /\ resp.status = 400 /\ sent = <<>>)
              /\ BINANCE_API_KEY # "" /\ BINANCE_API_SECRET # "" =>
                    Len(sent) = 1 /\ sent[1].method = "POST"
        /\ (MAX_PRICE_DEVIATION_PCT > 0 /\ req.last # <<>> /\ req.last[1] > 0) =>
              ((/\ req.pc = "done" /\ resp.kind = "HTTPException" /\ resp.status = 400
                /\ Len(sent) = 1 /\ sent[1].path = TickerPath)
               <=> Abs(req.body.price - req.last[1]) * 100
                       > MAX_PRICE_DEVIATION_PCT * req.last[1])

\* an order whose deviation equals the limit went on to the signed call
C18_Witness ==
    /\ req.route = "order/limit" /\ req.pc = "venue"
    /\ MAX_PRICE_DEVIATION_PCT > 0 /\ req.last # <<>> /\ req.last[1] > 0
    /\ Abs(req.body.price - req.last[1]) * 100 = MAX_PRICE_DEVIATION_PCT * req.last[1]
    /\ Len(sent) = 2 /\ sent[2].method = "POST"

(* C19: while AGENT_KEY is not configured (empty), every request to          *)
(* balances, open-orders, order/limit, order/oco and DELETE order is         *)
(* answered 401 whatever its X-Agent-Key header (absent and empty included): *)
(* its function is not entered, and no call at all is issued for it.         *)
C19_UnconfiguredRejectsAll ==
    AGENT_KEY = "" =>
        /\ (req.route \in AuthRoutes /\ req.pc # "idle") =>
              /\ req.pc = "done" /\ ~req.handler /\ sent = <<>>
              /\ resp.kind = "HTTPException" /\ resp.status = 401
        /\ \A i \in 1..Len(sent) : ~IsSigned(sent[i])

\* an order with an empty header was answered 401 by the unconfigured gateway
C19_Witness ==
    /\ AGENT_KEY = "" /\ req.route = "order/limit" /\ req.x_agent_key = <<"">>
    /\ req.pc = "done" /\ resp.status = 401 /\ ~req.handler

(* C20: with the deviation check enabled, when the ticker call succeeds and  *)
(* the last price is 0, the order is not dispatched and the request does not *)
(* pass: it ends with the unmapped ZeroDivisionError (500), not with the 400 *)
(* of the deviation check, and only the ticker call was sent.                *)
C20_ZeroLastPrice ==
    (req.route \in OrderRoutes /\ MAX_PRICE_DEVIATION_PCT > 0
        /\ req.last # <<>> /\ req.last[1] = 0) =>
        /\ req.pc = "done"
        /\ resp.kind = "unhandled" /\ resp.status = 500
        /\ resp.detail = [msg |-> "ZeroDivisionError"]
        /\ Len(sent) = 1 /\ sent[1].path = TickerPath /\ ~IsSigned(sent[1])

\* a limit order met a last price of 0 and failed with the unmapped error
C20_Witness ==
    /\ req.route = "order/limit" /\ req.pc = "done" /\ req.handler
    /\ MAX_PRICE_DEVIATION_PCT > 0 /\ req.last = <<0>>
    /\ resp.kind = "unhandled" /\ Len(sent) = 1

====
